---------------------------- MODULE Spec2Model ----------------------------
(***************************************************************************)
(* AI Professor: the response normalizer, the content generation client,  *)
(* the video lookup client and the session layer that drives them.        *)
(*                                                                         *)
(* The repository holds two variants of the program:                       *)
(*   "package"  ai_professor/app.py with ai_professor/services/*.py        *)
(*   "root"     app.py (single file, provider selectable)                  *)
(* The variable app says which one is running.                             *)
(*                                                                         *)
(* A Python string is a sequence of one-character strings.  A parsed JSON  *)
(* value is a record tagged by its Python type:                            *)
(*   [t |-> "null"]  [t |-> "bool", v]  [t |-> "num", v]  [t |-> "str", v] *)
(*   [t |-> "list", v |-> sequence of values]                              *)
(*   [t |-> "dict", v |-> sequence of [k, v] pairs, keys distinct, in      *)
(*                        insertion order as a Python dict keeps them]     *)
(* A dict key is only ever compared whole, so it is one TLA+ string (and   *)
(* one element of the text where repr() of a dict spells it out).          *)
(***************************************************************************)
EXTENDS Integers, Sequences, FiniteSets, TLC

VARIABLES
    app,        \* "package" or "root": the variant that is running
    payload,    \* normalizer: the value json.loads returned
    built,      \* normalizer: what building the record from payload gave
    normPc,     \* normalizer: "off", "parsed" (payload in hand) or "done"
    text,       \* parser: the response text handed to _safe_json_parse
    parsed,     \* parser: what _safe_json_parse returned or raised
    parsePc,    \* parser: "off", "text" (text in hand) or "done"
    request,    \* clients: the call about to be made, with what the remote end does
    answer,     \* clients: what the call returned or raised
    clientPc,   \* clients: "off", "ready" (request in hand) or "done"
    env,        \* the credentials the process was started with
    clock,      \* seconds since the process started
    cache,      \* st.cache_data: entries [fn, key, value, stored]
    locks,      \* st.cache_data: the compute locks held, [fn, key, holder]
    clients,    \* st.cache_resource: providers whose client is cached (root)
    session_state,  \* st.session_state of each browser session
    run,        \* each session's script run: position, locals, call counts
    ui,         \* what each session's last script run put on the page
    provLog,    \* history: the generation requests that reached a provider
    owner,      \* history: the topic each stored pack and video was made for
    clicks      \* Generate clicks so far

pureVars == <<payload, built, normPc, text, parsed, parsePc, request, answer, clientPc>>
appVars == <<env, clock, cache, locks, clients, session_state, run, ui, provLog,
             owner, clicks>>
vars == <<app, payload, built, normPc, text, parsed, parsePc, request, answer,
          clientPc, env, clock, cache, locks, clients, session_state, run, ui,
          provLog, owner, clicks>>

Apps == {"package", "root"}

-----------------------------------------------------------------------------
(* Bounds of the model.                                                    *)

MaxListLen == 2
MaxBodyLen == 3
MaxClicks == 2
MaxClock == 3600
TickSeconds == 1800

-----------------------------------------------------------------------------
(* Python strings.                                                         *)

Whitespace == {" ", "\n"}

RECURSIVE lstrip(_)
lstrip(s) ==
    IF s # <<>> /\ Head(s) \in Whitespace THEN lstrip(Tail(s)) ELSE s

RECURSIVE rstrip(_)
rstrip(s) ==
    IF s # <<>> /\ s[Len(s)] \in Whitespace
    THEN rstrip(SubSeq(s, 1, Len(s) - 1))
    ELSE s

\* str.strip()
\* Mutant: the topic field taken as typed.
strip_none(s) == s

strip(s) == rstrip(lstrip(s))

\* bool(s) of a string: non-empty
truthy(s) == s # <<>>

DigitChar(d) == <<"0", "1", "2", "3", "4", "5", "6", "7", "8", "9">>[d + 1]

RECURSIVE IntStr(_)
IntStr(n) ==
    IF n < 10 THEN <<DigitChar(n)>> ELSE IntStr(n \div 10) \o <<DigitChar(n % 10)>>

\* repr() of one character inside a quoted string
ReprChar(c) == IF c = "\n" THEN <<"\\", "n">> ELSE <<c>>

RECURSIVE ReprChars(_)
ReprChars(s) ==
    IF s = <<>> THEN <<>> ELSE ReprChar(Head(s)) \o ReprChars(Tail(s))

-----------------------------------------------------------------------------
(* Parsed JSON values as Python objects.                                   *)

JNull == [t |-> "null"]
JBool(b) == [t |-> "bool", v |-> b]
JNum(n) == [t |-> "num", v |-> n]
JStr(s) == [t |-> "str", v |-> s]
JList(l) == [t |-> "list", v |-> l]
JDict(d) == [t |-> "dict", v |-> d]

IsStr(x) == x.t = "str"
IsList(x) == x.t = "list"
IsDict(x) == x.t = "dict"

HasKey(d, k) == \E i \in 1..Len(d.v) : d.v[i].k = k

\* dict.get(k, default)
DictGet(d, k, default) ==
    IF HasKey(d, k)
    THEN d.v[CHOOSE i \in 1..Len(d.v) : d.v[i].k = k].v
    ELSE default

\* repr(x) and str(x): they differ on strings only
RECURSIVE PyRepr(_)
RECURSIVE ReprItems(_)
RECURSIVE ReprPairs(_)
ReprItems(l) ==
    IF l = <<>> THEN <<>>
    ELSE IF Len(l) = 1 THEN PyRepr(l[1])
    ELSE PyRepr(l[1]) \o <<",", " ">> \o ReprItems(Tail(l))

ReprPairs(d) ==
    IF d = <<>> THEN <<>>
    ELSE LET one == <<"'", d[1].k, "'", ":", " ">> \o PyRepr(d[1].v)
         IN IF Len(d) = 1 THEN one ELSE one \o <<",", " ">> \o ReprPairs(Tail(d))

PyRepr(x) ==
    CASE x.t = "null" -> <<"N", "o", "n", "e">>
      [] x.t = "bool" -> IF x.v THEN <<"T", "r", "u", "e">>
                                ELSE <<"F", "a", "l", "s", "e">>
      [] x.t = "num"  -> IntStr(x.v)
      [] x.t = "str"  -> <<"'">> \o ReprChars(x.v) \o <<"'">>
      [] x.t = "list" -> <<"[">> \o ReprItems(x.v) \o <<"]">>
      [] x.t = "dict" -> <<"{">> \o ReprPairs(x.v) \o <<"}">>

PyStr(x) == IF x.t = "str" THEN x.v ELSE PyRepr(x)

-----------------------------------------------------------------------------
(* The normalizer: _normalize_list, _normalize_roadmap and the record      *)
(* construction that ends generate_topic_pack / generate_learning_content. *)

RECURSIVE StrippedItems(_)
\* [str(item).strip() for item in value if str(item).strip()]
StrippedItems(l) ==
    IF l = <<>> THEN <<>>
    ELSE LET s == strip(PyStr(Head(l)))
         IN (IF truthy(s) THEN <<s>> ELSE <<>>) \o StrippedItems(Tail(l))

\* Mutant: the comprehension without its filter.
RECURSIVE UnfilteredItems(_)
UnfilteredItems(l) ==
    IF l = <<>> THEN <<>> ELSE <<strip(PyStr(Head(l)))>> \o UnfilteredItems(Tail(l))

normalize_list_nofilter(value) ==
    IF IsList(value) THEN UnfilteredItems(value.v)
    ELSE IF IsStr(value) /\ truthy(strip(value.v)) THEN <<strip(value.v)>>
    ELSE <<>>

normalize_list(value) ==
    IF IsList(value) THEN StrippedItems(value.v)
    ELSE IF IsStr(value) /\ truthy(strip(value.v)) THEN <<strip(value.v)>>
    ELSE <<>>

Levels == {"Beginner", "Intermediate", "Advanced"}

\* Mutant: only the levels the source holds are filled in.
normalize_roadmap_present_only(value) ==
    IF ~IsDict(value) THEN [level \in Levels |-> <<>>]
    ELSE [level \in {l \in Levels : HasKey(value, l)} |->
              normalize_list(DictGet(value, level, JNull))]

normalize_roadmap(value) ==
    IF ~IsDict(value) THEN [level \in Levels |-> <<>>]
    ELSE [level \in Levels |-> normalize_list(DictGet(value, level, JNull))]

ExplanationUnavailable ==
    <<"E", "x", "p", "l", "a", "n", "a", "t", "i", "o", "n", " ",
      "u", "n", "a", "v", "a", "i", "l", "a", "b", "l", "e", ".">>

NotAvailable == <<"N", "o", "t", " ", "a", "v", "a", "i", "l", "a", "b", "l", "e">>

\* What a call returned or raised.  The message of an exception is a text in
\* which a run of characters that no search of the code can split is written
\* as one element.
Returned(x) == [ok |-> TRUE, value |-> x]
Raised(type, msg) == [ok |-> FALSE, exc |-> type, msg |-> msg]

\* package: GeminiResponse(...) built from payload; payload.get on a value
\* that is no dict raises AttributeError.
GeminiResponse(p) ==
    IF ~IsDict(p) THEN Raised("AttributeError", <<"object has no attribute 'get'">>)
    ELSE Returned(
      [simple_explanation |->
           JStr(PyStr(DictGet(p, "simple_explanation", JStr(ExplanationUnavailable)))),
       key_concepts |-> normalize_list(DictGet(p, "key_concepts", JNull)),
       real_world_applications |->
           normalize_list(DictGet(p, "real_world_applications", JNull)),
       diagram_mermaid |-> JStr(PyStr(DictGet(p, "diagram_mermaid", JStr(<<>>)))),
       prerequisites |-> normalize_list(DictGet(p, "prerequisites", JNull)),
       what_to_learn_next |-> normalize_list(DictGet(p, "what_to_learn_next", JNull)),
       mini_roadmap |-> normalize_roadmap(DictGet(p, "mini_roadmap", JNull)),
       suggested_projects |-> normalize_list(DictGet(p, "suggested_projects", JNull)),
       interview_questions |-> normalize_list(DictGet(p, "interview_questions", JNull))])

\* root: GenerationResult(...); simple_explanation is stored as it was found.
GenerationResult(p) ==
    IF ~IsDict(p) THEN Raised("AttributeError", <<"object has no attribute 'get'">>)
    ELSE Returned(
      [simple_explanation |->
           DictGet(p, "simple_explanation", JStr(ExplanationUnavailable)),
       real_world_applications |->
           normalize_list(DictGet(p, "real_world_applications", JNull)),
       key_concepts |-> normalize_list(DictGet(p, "key_concepts", JNull)),
       what_to_learn_next |-> normalize_list(DictGet(p, "what_to_learn_next", JNull)),
       mini_learning_roadmap |->
           normalize_roadmap(DictGet(p, "mini_learning_roadmap", JNull)),
       suggested_projects |-> normalize_list(DictGet(p, "suggested_projects", JNull)),
       interview_questions |-> normalize_list(DictGet(p, "interview_questions", JNull)),
       prerequisites |-> normalize_list(DictGet(p, "prerequisites", JNull)),
       next_logical_topic |->
           JStr(PyStr(DictGet(p, "next_logical_topic", JStr(NotAvailable)))),
       recommended_skills |-> normalize_list(DictGet(p, "recommended_skills", JNull)),
       mermaid_diagram |-> JStr(PyStr(DictGet(p, "mermaid_diagram", JStr(<<>>))))])

\* The record the running variant builds from a parsed payload.
BuildRecord(a, p) == IF a = "package" THEN GeminiResponse(p) ELSE GenerationResult(p)

\* The variant's names for the fields the two share by role.
RoadmapField(a) == IF a = "package" THEN "mini_roadmap" ELSE "mini_learning_roadmap"
DiagramField(a) == IF a = "package" THEN "diagram_mermaid" ELSE "mermaid_diagram"

ListFields(a) ==
    {"key_concepts", "real_world_applications", "prerequisites",
     "what_to_learn_next", "suggested_projects", "interview_questions"}
    \cup (IF a = "root" THEN {"recommended_skills"} ELSE {})

-----------------------------------------------------------------------------
(* Response text and json.loads.                                           *)
(*                                                                         *)
(* A text is a sequence of characters in which three kinds of runs, which  *)
(* the code only ever treats whole, are written as one element: the fence  *)
(* of three backticks, the word "json", and a quoted JSON string literal   *)
(* (a key or a string value, none of which holds a brace or a backtick).   *)

\* The run of three backticks.
Fence == "FENCE"

\* The quoted string literals of the sample texts and what they denote.
StringLiterals ==
    {"\"a\"", "\" \"", "\"simple_explanation\"", "\"key_concepts\"",
     "\"mini_roadmap\"", "\"mini_learning_roadmap\"", "\"Beginner\""}

\* The key a literal denotes (a dict key is one string).
LiteralKey(a) ==
    CASE a = "\"a\"" -> "a"
      [] a = "\" \"" -> " "
      [] a = "\"simple_explanation\"" -> "simple_explanation"
      [] a = "\"key_concepts\"" -> "key_concepts"
      [] a = "\"mini_roadmap\"" -> "mini_roadmap"
      [] a = "\"mini_learning_roadmap\"" -> "mini_learning_roadmap"
      [] a = "\"Beginner\"" -> "Beginner"

\* The string value a literal denotes.
LiteralValue(a) == JStr(<<LiteralKey(a)>>)

Digits == {"0", "1", "2", "3", "4", "5", "6", "7", "8", "9"}

DigitValue(c) == CHOOSE d \in 0..9 : DigitChar(d) = c

\* json's WHITESPACE, restricted to the characters of the model.
JsonWhitespace == {" ", "\n"}

RECURSIVE SkipWs(_, _)
SkipWs(t, i) ==
    IF i <= Len(t) /\ t[i] \in JsonWhitespace THEN SkipWs(t, i + 1) ELSE i

RECURSIVE DigitsEnd(_, _)
\* The index after the run of digits that starts at i.
DigitsEnd(t, i) ==
    IF i <= Len(t) /\ t[i] \in Digits THEN DigitsEnd(t, i + 1) ELSE i

RECURSIVE DecimalValue(_)
DecimalValue(ds) ==
    IF ds = <<>> THEN 0
    ELSE 10 * DecimalValue(SubSeq(ds, 1, Len(ds) - 1)) + DigitValue(ds[Len(ds)])

ParseOk(v, next) == [ok |-> TRUE, value |-> v, next |-> next]
ParseFail == [ok |-> FALSE]

\* d[k] = x on the dict under construction: a repeated key keeps its place
\* and takes the later value.
PairsPut(d, k, x) ==
    IF \E i \in 1..Len(d) : d[i].k = k
    THEN [i \in 1..Len(d) |-> IF d[i].k = k THEN [k |-> k, v |-> x] ELSE d[i]]
    ELSE Append(d, [k |-> k, v |-> x])

RECURSIVE ParseValue(_, _)
RECURSIVE ParseMembers(_, _, _)
RECURSIVE ParseItems(_, _, _)

\* JSONObject after "{" and whitespace, at a key.
ParseMembers(t, i, acc) ==
    IF i > Len(t) \/ t[i] \notin StringLiterals THEN ParseFail
    ELSE LET colon == SkipWs(t, i + 1)
         IN IF colon > Len(t) \/ t[colon] # ":" THEN ParseFail
            ELSE LET r == ParseValue(t, SkipWs(t, colon + 1))
                 IN IF ~r.ok THEN ParseFail
                    ELSE LET d == PairsPut(acc, LiteralKey(t[i]), r.value)
                             j == SkipWs(t, r.next)
                         IN IF j > Len(t) THEN ParseFail
                            ELSE IF t[j] = "}" THEN ParseOk(JDict(d), j + 1)
                            ELSE IF t[j] = ","
                                 THEN ParseMembers(t, SkipWs(t, j + 1), d)
                            ELSE ParseFail

\* JSONArray after "[" and whitespace, at a value.
ParseItems(t, i, acc) ==
    LET r == ParseValue(t, i)
    IN IF ~r.ok THEN ParseFail
       ELSE LET l == Append(acc, r.value)
                j == SkipWs(t, r.next)
            IN IF j > Len(t) THEN ParseFail
               ELSE IF t[j] = "]" THEN ParseOk(JList(l), j + 1)
               ELSE IF t[j] = "," THEN ParseItems(t, SkipWs(t, j + 1), l)
               ELSE ParseFail

\* The scanner's scan_once at index i.
ParseValue(t, i) ==
    IF i > Len(t) THEN ParseFail
    ELSE IF t[i] \in StringLiterals THEN ParseOk(LiteralValue(t[i]), i + 1)
    ELSE IF t[i] = "{"
         THEN LET j == SkipWs(t, i + 1)
              IN IF j <= Len(t) /\ t[j] = "}" THEN ParseOk(JDict(<<>>), j + 1)
                 ELSE ParseMembers(t, j, <<>>)
    ELSE IF t[i] = "["
         THEN LET j == SkipWs(t, i + 1)
              IN IF j <= Len(t) /\ t[j] = "]" THEN ParseOk(JList(<<>>), j + 1)
                 ELSE ParseItems(t, j, <<>>)
    ELSE IF t[i] = "0" THEN ParseOk(JNum(0), i + 1)
    ELSE IF t[i] \in Digits
         THEN LET e == DigitsEnd(t, i)
              IN ParseOk(JNum(DecimalValue(SubSeq(t, i, e - 1))), e)
    ELSE ParseFail

\* json.loads(t): one value between optional whitespace, nothing after it.
loads(t) ==
    LET r == ParseValue(t, SkipWs(t, 1))
    IN IF r.ok /\ SkipWs(t, r.next) = Len(t) + 1
       THEN Returned(r.value)
       ELSE Raised("JSONDecodeError", <<"Expecting value">>)

-----------------------------------------------------------------------------
(* _safe_json_parse / safe_json_parse.                                     *)

AtLineStart(t, i) == i = 1 \/ t[i - 1] = "\n"
AtLineEnd(t, i) == i = Len(t) \/ t[i + 1] = "\n"

RECURSIVE SubFences(_, _)
\* re.sub(r"^FENCE(?:json)?|FENCE$", "", t, flags=re.MULTILINE) from index i on.
SubFences(t, i) ==
    IF i > Len(t) THEN <<>>
    ELSE IF t[i] = Fence /\ AtLineStart(t, i)
         THEN IF i < Len(t) /\ t[i + 1] = "json"
              THEN SubFences(t, i + 2)
              ELSE SubFences(t, i + 1)
    ELSE IF t[i] = Fence /\ AtLineEnd(t, i) THEN SubFences(t, i + 1)
    ELSE <<t[i]>> \o SubFences(t, i + 1)

\* str.find / str.rfind of one character, 1-based, 0 for Python's -1.
find(t, c) ==
    IF \E i \in 1..Len(t) : t[i] = c
    THEN CHOOSE i \in 1..Len(t) : t[i] = c /\ \A j \in 1..(i - 1) : t[j] # c
    ELSE 0

rfind(t, c) ==
    IF \E i \in 1..Len(t) : t[i] = c
    THEN CHOOSE i \in 1..Len(t) : t[i] = c /\ \A j \in (i + 1)..Len(t) : t[j] # c
    ELSE 0

\* The error the variant raises when it finds no braces to fall back on.
InvalidJson(a) ==
    IF a = "package"
    THEN Raised("GeminiServiceError", <<"Gemini returned invalid JSON format.">>)
    ELSE Raised("RuntimeError", <<"Model did not return valid JSON.">>)

safe_json_parse(a, t) ==
    LET cleaned == strip(SubFences(strip(t), 1))
        first == loads(cleaned)
        start == find(cleaned, "{")
        end == rfind(cleaned, "}")
    IN IF first.ok THEN first
       ELSE IF start # 0 /\ end # 0 /\ end > start
            THEN loads(SubSeq(cleaned, start, end))
       ELSE InvalidJson(a)

-----------------------------------------------------------------------------
(* The content generation client: generate_topic_pack (package) and        *)
(* generate_learning_content (root), as functions of their arguments and   *)
(* of what the provider SDK does during the call.                          *)

\* str.lower() of one element of a message.
LowerChunk(c) ==
    CASE c = "Quota" -> "quota"
      [] c = "API" -> "api"
      [] c = "Rate" -> "rate"
      [] c = "Invalid" -> "invalid"
      [] c = "Exceeded" -> "exceeded"
      [] c = "Bad" -> "bad"
      [] c = "Request" -> "request"
      [] OTHER -> c

lower(m) == [i \in 1..Len(m) |-> LowerChunk(m[i])]

\* needle in m
Contains(m, needle) ==
    \E i \in 1..(Len(m) - Len(needle) + 1) : SubSeq(m, i, i + Len(needle) - 1) = needle

\* What the provider SDK does during one call:
\*   [kind |-> "init_error", msg]  the client cannot be set up
\*   [kind |-> "error", msg]       the request raises
\*   [kind |-> "text", text]       the request returns a response with text
InitError(m) == [kind |-> "init_error", msg |-> m]
RequestError(m) == [kind |-> "error", msg |-> m]
ResponseText(t) == [kind |-> "text", text |-> t]

\* package, lines 84-92: the GeminiServiceError raised for a provider exception.
ClassifyGeminiError(msg) ==
    LET message == lower(msg)
    IN IF Contains(message, <<"quota">>) \/ Contains(message, <<"429">>)
          \/ Contains(message, <<"rate">>)
       THEN Raised("GeminiServiceError",
                   <<"Gemini API quota exceeded. Please try again later.">>)
       ELSE IF Contains(message, <<"api", " ", "key">>)
               \/ Contains(message, <<"permission">>)
               \/ Contains(message, <<"unauthorized">>)
       THEN Raised("GeminiServiceError",
                   <<"Invalid Gemini API key or permission denied.">>)
       ELSE IF Contains(message, <<"network">>) \/ Contains(message, <<"connection">>)
               \/ Contains(message, <<"timeout">>)
       THEN Raised("GeminiServiceError",
                   <<"Network error while contacting Gemini API.">>)
       ELSE Raised("GeminiServiceError", <<"Gemini API request failed: ">> \o msg)

\* The body of generate_topic_pack (the cache decorator apart).
generate_topic_pack(topic, mode, gemini_api_key, sdk) ==
    IF gemini_api_key = ""
    THEN Raised("GeminiConfigError", <<"GEMINI_API_KEY missing in environment.">>)
    ELSE IF sdk.kind = "init_error"
    THEN Raised("GeminiConfigError", <<"Gemini initialization failed: ">> \o sdk.msg)
    ELSE IF sdk.kind = "error" THEN ClassifyGeminiError(sdk.msg)
    ELSE LET parse == safe_json_parse("package", sdk.text)
         IN IF parse.ok THEN GeminiResponse(parse.value) ELSE parse

\* The body of generate_learning_content; get_llm_client raises RuntimeError.
generate_learning_content(topic, mode, provider, sdk) ==
    IF sdk.kind = "init_error" THEN Raised("RuntimeError", sdk.msg)
    ELSE IF sdk.kind = "error" THEN Raised("ProviderError", sdk.msg)
    ELSE LET parse == safe_json_parse("root", sdk.text)
         IN IF parse.ok THEN GenerationResult(parse.value) ELSE parse

-----------------------------------------------------------------------------
(* The video lookup client: search_youtube_video of both variants, as a    *)
(* function of its arguments and of what the HTTP request does.            *)

KV(k, x) == [k |-> k, v |-> x]

\* bool(x) of a Python object
PyTruthy(x) ==
    CASE x.t = "null" -> FALSE
      [] x.t = "bool" -> x.v
      [] x.t = "num"  -> x.v # 0
      [] OTHER        -> x.v # <<>>

\* a or b
PyOr(a, b) == IF PyTruthy(a) THEN a ELSE b

\* What requests.get(...) followed by response.json() does:
\*   [kind |-> "exc", exc]                 one of them raises
\*   [kind |-> "response", status, data]   a response whose body parses to data
HttpRaises(e) == [kind |-> "exc", exc |-> e]
HttpResponse(status, data) == [kind |-> "response", status |-> status, data |-> data]

HttpOk == 200

\* x.get(k, default) on an object that may be no dict.
GetOr(x, k, default) ==
    IF IsDict(x) THEN Returned(DictGet(x, k, default))
    ELSE Raised("AttributeError", <<"object has no attribute 'get'">>)

\* error, message and reason as lines 38-43 (package) and 88-92 (root) read
\* them: [ok |-> TRUE, value |-> [reason, message]] or the exception raised.
ErrorReason(data, defaultMessage) ==
    LET error == GetOr(data, "error", JDict(<<>>))
    IN IF ~error.ok THEN error
       ELSE LET message == GetOr(error.value, "message", JStr(defaultMessage))
            IN IF ~message.ok THEN message
               ELSE LET errors == DictGet(error.value, "errors", JList(<<>>))
                    IN IF ~PyTruthy(errors)
                       THEN Returned([reason |-> JStr(<<>>), message |-> message.value])
                       ELSE IF ~IsList(errors)
                       THEN Raised("KeyError", <<"0">>)
                       ELSE LET reason == GetOr(errors.v[1], "reason", JStr(<<>>))
                            IN IF ~reason.ok THEN reason
                               ELSE Returned([reason |-> reason.value,
                                              message |-> message.value])

\* items[0].get(outer, {}).get(inner, default)
ItemField(item, outer, inner, default) ==
    LET o == GetOr(item, outer, JDict(<<>>))
    IN IF ~o.ok THEN o ELSE GetOr(o.value, inner, default)

WatchUrl(video_id) == JStr(<<"https://www.youtube.com/watch?v=">> \o PyStr(video_id))
EmbedUrl(video_id) == JStr(<<"https://www.youtube.com/embed/">> \o PyStr(video_id))

\* Lines 52-65 (package) and 95-110 (root): the first item of a 200 response.
FirstVideo(a, data) ==
    LET items == GetOr(data, "items", JList(<<>>))
    IN IF ~items.ok THEN items
       ELSE IF ~PyTruthy(items.value) THEN Returned(JNull)
       ELSE IF ~IsList(items.value) THEN Raised("KeyError", <<"0">>)
       ELSE LET item == items.value.v[1]
                video_id == ItemField(item, "id", "videoId", JNull)
                title == ItemField(item, "snippet", "title",
                                   IF a = "package" THEN JStr(<<>>)
                                   ELSE JStr(<<"Untitled video">>))
            IN IF ~video_id.ok THEN video_id
               ELSE IF ~title.ok THEN title
               ELSE IF ~PyTruthy(video_id.value) THEN Returned(JNull)
               ELSE IF a = "package"
                    THEN Returned([video_id |-> video_id.value,
                                   title |-> title.value,
                                   video_url |-> WatchUrl(video_id.value)])
                    ELSE Returned([video_id |-> video_id.value,
                                   title |-> title.value,
                                   watch_url |-> WatchUrl(video_id.value),
                                   embed_url |-> EmbedUrl(video_id.value)])

\* package, lines 37-50: the error raised for a status other than 200.
YouTubeStatusError(data) ==
    LET e == ErrorReason(data, <<"YouTube API error">>)
    IN IF ~e.ok THEN e
       ELSE LET rm == PyOr(e.value.reason, e.value.message)
            IN IF ~IsStr(rm)
               THEN Raised("AttributeError", <<"object has no attribute 'lower'">>)
               ELSE LET reason_or_message == lower(rm.v)
                    IN IF Contains(reason_or_message, <<"quota">>)
                       THEN Raised("YouTubeServiceError",
                                   <<"YouTube API quota exceeded. Try again later.">>)
                       ELSE IF Contains(reason_or_message, <<"key", "invalid">>)
                               \/ Contains(reason_or_message, <<"api", " ", "key">>)
                       THEN Raised("YouTubeServiceError", <<"Invalid YouTube API key.">>)
                       ELSE Raised("YouTubeServiceError",
                                   <<"YouTube API error: ">> \o rm.v)

\* package: the body of search_youtube_video (the cache decorator apart).
search_youtube_video_package(topic, youtube_api_key, http) ==
    IF youtube_api_key = "" THEN Returned(JNull)
    ELSE IF http.kind = "exc"
    THEN CASE http.exc = "Timeout" ->
                  Raised("YouTubeServiceError", <<"YouTube request timed out.">>)
           [] http.exc = "ConnectionError" ->
                  Raised("YouTubeServiceError",
                         <<"Network error while contacting YouTube API.">>)
           [] http.exc = "RequestException" ->
                  Raised("YouTubeServiceError",
                         <<"YouTube API request failed: ", "RequestException">>)
           [] OTHER -> Raised(http.exc, <<http.exc>>)
    ELSE IF http.status # HttpOk THEN YouTubeStatusError(http.data)
    ELSE FirstVideo("package", http.data)

\* root: the body of search_youtube_video.
search_youtube_video_root(topic, api_key, http) ==
    IF http.kind = "exc" THEN Raised(http.exc, <<http.exc>>)
    ELSE IF http.status # HttpOk
    THEN LET e == ErrorReason(http.data, <<"YouTube API request failed.">>)
         IN IF ~e.ok THEN e
            ELSE Raised("RuntimeError",
                        <<"YouTube API error: ">>
                            \o PyStr(PyOr(e.value.reason, e.value.message)))
    ELSE FirstVideo("root", http.data)

search_youtube_video(a, topic, key, http) ==
    IF a = "package" THEN search_youtube_video_package(topic, key, http)
    ELSE search_youtube_video_root(topic, key, http)

\* Mutant: the lookup called whether or not a key is configured.
lookup_unguarded(a, topic, youtube_key, http) ==
    [gets |-> 1, outcome |-> search_youtube_video(a, topic, youtube_key, http)]

\* The lookup as _run_generation (lines 129-131) and run_generation (lines
\* 290-292) make it: the call is guarded by the key; gets counts the calls of
\* requests.get.
lookup(a, topic, youtube_key, http) ==
    IF youtube_key = ""
    THEN [gets |-> 0, outcome |-> Returned(JNull)]
    ELSE [gets |-> 1, outcome |-> search_youtube_video(a, topic, youtube_key, http)]

-----------------------------------------------------------------------------
(* The process: credentials, the st.cache_data cache shared by all         *)
(* sessions, and each browser session's st.session_state.                  *)

Sessions == {1, 2}

\* ttl=3600 of both cached functions
TTL == 3600

NotCalled == [called |-> FALSE]

\* st.session_state after _init_state / init_state.  The root variant calls
\* topic_history "history" and last_video "video_data".
FreshSessionState == [topic_history |-> <<>>, last_result |-> JNull, last_video |-> JNull]

IdleRun ==
    [pc |-> "idle", topic |-> <<>>, mode |-> "", third |-> "",
     result |-> NotCalled, video |-> NotCalled,
     genCalls |-> 0, vidCalls |-> 0, genSource |-> "none", genAt |-> 0,
     peer |-> NotCalled]

BlankPage ==
    [error |-> <<>>, warning |-> <<>>, info |-> <<>>, pack |-> JNull, video |-> JNull]

NormOff == payload = JNull /\ built = NotCalled /\ normPc = "off"
ParseOff == text = <<>> /\ parsed = NotCalled /\ parsePc = "off"
ClientOff == request = NotCalled /\ answer = NotCalled /\ clientPc = "off"

\* The process as it starts, given its credentials.
Started(e) ==
    /\ env = e
    /\ clock = 0
    /\ cache = {}
    /\ locks = {}
    /\ clients = {}
    /\ session_state = [s \in Sessions |-> FreshSessionState]
    /\ run = [s \in Sessions |-> IdleRun]
    /\ ui = [s \in Sessions |-> BlankPage]
    /\ provLog = <<>>
    /\ owner = [s \in Sessions |-> [result |-> <<>>, video |-> <<>>]]
    /\ clicks = 0

AppOff == Started([gemini_key |-> "", youtube_key |-> ""])

\* st.cache_data: the unexpired entries for a call of fn with key.
Hits(fn, key) ==
    {e \in cache : e.fn = fn /\ e.key = key /\ clock - e.stored < TTL}

\* Mutant: a cache that keeps nothing.
Stored_nothing(fn, key, value) == cache

\* st.cache_data: the cache after value was computed for a call.
Stored(fn, key, value) ==
    {e \in cache : ~(e.fn = fn /\ e.key = key)}
    \cup {[fn |-> fn, key |-> key, value |-> value, stored |-> clock]}

Locked(fn, key) == \E l \in locks : l.fn = fn /\ l.key = key

-----------------------------------------------------------------------------
(* The session layer: main, _run_generation (package) and run_generation   *)
(* (root).  One session's part of the state is handled as a bundle         *)
(* [run, st, page, own].                                                   *)

Modes == {"Beginner", "Advanced"}
Providers == {"Gemini", "OpenAI"}

\* What the user may have typed in the topic box.
RawTopics == {<<>>, <<" ">>, <<"A">>, <<"B">>, <<" ", "A">>}

GenFn(a) == IF a = "package" THEN "generate_topic_pack" ELSE "generate_learning_content"
VidFn == "search_youtube_video"

\* The arguments the cache keys a call by.
GenKey(r) == <<r.topic, r.mode, r.third>>
VidKey(r) == <<r.topic, env.youtube_key>>

Bundle(s) == [run |-> run[s], st |-> session_state[s], page |-> ui[s], own |-> owner[s]]

\* Mutant: history.append(topic) whatever the history holds.
Remember_always(history, topic) == Append(history, topic)

\* history.append(topic) unless it is there already
Remember(history, topic) ==
    IF \E i \in 1..Len(history) : history[i] = topic
    THEN history
    ELSE Append(history, topic)

\* package, lines 118-126: the message of st.error for a failed generation.
PackageGenError(e) ==
    IF e.exc \in {"GeminiConfigError", "GeminiServiceError"} THEN e.msg
    ELSE <<"Unexpected error while generating content. Please try again.">>

\* root, lines 279-285
RootGenError(e) ==
    LET lowered == lower(e.msg)
    IN IF Contains(lowered, <<"rate">>) \/ Contains(lowered, <<"quota">>)
          \/ Contains(lowered, <<"429">>)
       THEN <<"LLM rate limit exceeded. Please retry in a minute.">>
       ELSE <<"Content generation failed: ">> \o e.msg

\* package, lines 133-136: the message of st.warning for a failed lookup.
PackageVideoWarning(e) ==
    IF e.exc = "YouTubeServiceError" THEN e.msg
    ELSE <<"Unable to fetch YouTube video due to an unexpected error.">>

\* root, lines 294-299
RootVideoWarning(e) ==
    LET message == lower(e.msg)
    IN IF Contains(message, <<"quota">>) \/ Contains(message, <<"rate", "limit">>)
          \/ Contains(message, <<"403">>)
       THEN <<"YouTube API quota exceeded. Please try again later.">>
       ELSE <<"Video lookup failed: ">> \o e.msg

\* Mutant: a failed generation call is made once more.
OnGenerationError_retry(b, a, e) ==
    IF b.run.genCalls < 2
    THEN [b EXCEPT !.run.pc = "gen_wait", !.run.genCalls = @ + 1]
    ELSE [b EXCEPT !.run.pc = "render", !.page.error = e.msg]

\* Mutant: a failed generation recorded in the history all the same.
OnGenerationError_remember(b, a, e) ==
    [b EXCEPT !.run.pc = "render",
              !.st.topic_history = Remember(@, b.run.topic),
              !.page.error = IF a = "package" THEN PackageGenError(e) ELSE RootGenError(e)]

\* Where the script goes when the generation call raised: st.error, return.
OnGenerationError(b, a, e) ==
    [b EXCEPT !.run.pc = "render",
              !.page.error = IF a = "package" THEN PackageGenError(e) ELSE RootGenError(e)]

\* package, lines 138-141: the stores that end _run_generation.
PackageFinish(b, video) ==
    [b EXCEPT !.run.pc = "render",
              !.st.last_result = b.run.result.value,
              !.st.last_video = video,
              !.st.topic_history = Remember(@, b.run.topic),
              !.own = [result |-> b.run.topic,
                       video |-> IF video = JNull THEN <<>> ELSE b.run.topic]]

\* root, line 303: st.session_state.video_data = video_data
RootFinish(b, video) ==
    [b EXCEPT !.run.pc = "render",
              !.st.last_video = video,
              !.own.video = IF video = JNull THEN <<>> ELSE b.run.topic]

\* The script from the return of the generation call to the video lookup
\* (package lines 128-129, root lines 276-278 and 288-301).
OnGenerationResult(b, a, youtube_key) ==
    IF a = "package"
    THEN IF youtube_key # "" THEN [b EXCEPT !.run.pc = "video"]
         ELSE PackageFinish(b, JNull)
    ELSE LET stored == [b EXCEPT !.st.last_result = b.run.result.value,
                                 !.st.topic_history = Remember(@, b.run.topic),
                                 !.own.result = b.run.topic]
         IN IF youtube_key # "" THEN [stored EXCEPT !.run.pc = "video"]
            ELSE RootFinish([stored EXCEPT !.page.info =
                     <<"YOUTUBE_API_KEY not configured. Skipping video search.">>],
                     JNull)

\* The script after the generation call ended with outcome, served from source.
AfterGeneration(b, a, outcome, source, now, youtube_key) ==
    LET got == [b EXCEPT !.run.result = outcome, !.run.genSource = source,
                         !.run.genAt = now]
    IN IF outcome.ok THEN OnGenerationResult(got, a, youtube_key)
       ELSE OnGenerationError(got, a, outcome)

\* Mutant: a failed lookup ends the action the way a failed generation does.
OnVideoError_abort(b, a, e) ==
    [b EXCEPT !.run.pc = "render", !.page.error = e.msg]

\* The script after the lookup raised: st.warning, video stays None.
OnVideoError(b, a, e) ==
    LET warned == [b EXCEPT !.page.warning =
                       IF a = "package" THEN PackageVideoWarning(e)
                       ELSE RootVideoWarning(e)]
    IN IF a = "package" THEN PackageFinish(warned, JNull) ELSE RootFinish(warned, JNull)

\* The script after the video lookup ended with outcome.
AfterVideo(b, a, outcome) ==
    LET got == [b EXCEPT !.run.video = outcome]
    IN IF ~outcome.ok THEN OnVideoError(got, a, outcome)
       ELSE IF a = "package" THEN PackageFinish(got, outcome.value)
       ELSE RootFinish(got, outcome.value)

\* The page main draws below the controls: the stored pack, if any, with the
\* stored video.
Rendered(b) ==
    [b EXCEPT !.run.pc = "idle",
              !.page.pack = b.st.last_result,
              !.page.video = IF b.st.last_result = JNull THEN JNull ELSE b.st.last_video]

-----------------------------------------------------------------------------
(* Spec: the sessions of one process, each running its script step by step. *)

GoodText == <<"{", "\"key_concepts\"", ":", "\"a\"", "}">>

\* What the provider SDK may do during one generation call.
SdkOutcomes ==
    {InitError(<<"unavailable">>),
     RequestError(<<"Quota", " ", "exceeded">>),
     ResponseText(GoodText),
     ResponseText(<<"[", "]">>)}

VideoItem(id) ==
    JDict(<<KV("id", JDict(<<KV("videoId", JStr(<<id>>))>>)),
            KV("snippet", JDict(<<KV("title", JStr(<<"t">>))>>))>>)

\* What the HTTP request may do during one video lookup.
HttpOutcomes ==
    {HttpRaises("Timeout"),
     HttpRaises("ValueError"),
     HttpResponse(200, JDict(<<KV("items", JList(<<VideoItem("v1")>>))>>)),
     HttpResponse(200, JDict(<<KV("items", JList(<<>>))>>)),
     HttpResponse(403, JDict(<<KV("error",
         JDict(<<KV("message", JStr(<<"exceeded">>)),
                 KV("errors", JList(<<JDict(<<KV("reason",
                                   JStr(<<"quota", "Exceeded">>))>>)>>))>>))>>))}

\* The credentials a process of variant a may have been started with.  The
\* root variant reads its provider keys inside get_llm_client, whose failure
\* is an SDK outcome.
Environments(a) ==
    {[gemini_key |-> g, youtube_key |-> y] :
        g \in (IF a = "package" THEN {"", "gk"} ELSE {"gk"}), y \in {"", "yk"}}

Init ==
    /\ app \in Apps
    /\ \E e \in Environments(app) : Started(e)
    /\ NormOff
    /\ ParseOff
    /\ ClientOff

\* A script that has left _run_generation / run_generation runs on to the
\* end of main, which draws the page.
Settle(b) == IF b.run.pc = "render" THEN Rendered(b) ELSE b

SetBundle(s, b) ==
    LET nb == Settle(b)
    IN /\ run' = [run EXCEPT ![s] = nb.run]
       /\ session_state' = [session_state EXCEPT ![s] = nb.st]
       /\ ui' = [ui EXCEPT ![s] = nb.page]
       /\ owner' = [owner EXCEPT ![s] = nb.own]

\* The third argument of the cached generation call.
ThirdArgs == IF app = "package" THEN {env.gemini_key} ELSE Providers

\* What the user may have set the controls to when clicking Generate: the
\* default request (topic "A", the first mode, the first provider) and the
\* requests that differ from it in one control.
Deviations(q) ==
    (IF strip(q.raw) \in {<<>>, <<"A">>} THEN 0 ELSE 1)
    + (IF q.mode = "Beginner" THEN 0 ELSE 1)
    + (IF q.third \in {env.gemini_key, "Gemini"} THEN 0 ELSE 1)

Controls == [raw : RawTopics, mode : Modes, third : Providers \cup {"gk"}]

Requests == {q \in Controls : q.third \in ThirdArgs /\ Deviations(q) <= 1}

\* main stops before the controls when the package has no Gemini key.
Stopped == app = "package" /\ env.gemini_key = ""

\* A script run without a Generate click (a page load, another widget).
Rerun(s) ==
    /\ run[s].pc = "idle"
    /\ IF Stopped
       THEN SetBundle(s, [Bundle(s) EXCEPT
                !.run = IdleRun,
                !.page = [BlankPage EXCEPT
                              !.error = <<"GEMINI_API_KEY missing in environment.">>]])
       ELSE SetBundle(s, Rendered([Bundle(s) EXCEPT !.page = BlankPage,
                                                    !.run = IdleRun]))
    /\ UNCHANGED <<app, pureVars, env, clock, cache, locks, clients, provLog, clicks>>

\* The user clicks Generate: the script runs to the call of the cached
\* generation function, where a cache hit returns at once and a miss goes for
\* the key's compute lock.
Click(s, q) ==
    /\ run[s].pc = "idle"
    /\ ~Stopped
    /\ q \in Requests
    /\ clicks < MaxClicks
    /\ clicks' = clicks + 1
    /\ LET topic == strip(q.raw)
           b == [Bundle(s) EXCEPT !.page = BlankPage, !.run = IdleRun]
           c == [b EXCEPT !.run.topic = topic, !.run.mode = q.mode,
                          !.run.third = q.third, !.run.genCalls = 1]
           hits == Hits(GenFn(app), GenKey(c.run))
       IN IF ~truthy(topic)
          THEN SetBundle(s, [b EXCEPT
                   !.run.pc = "render",
                   !.page.error = <<"Please enter a topic before generating content.">>])
          ELSE IF hits # {}
          THEN SetBundle(s, AfterGeneration(c, app,
                   Returned((CHOOSE e \in hits : TRUE).value), "cache", clock,
                   env.youtube_key))
          ELSE SetBundle(s, [c EXCEPT !.run.pc = "gen_wait"])
    /\ UNCHANGED <<app, pureVars, env, clock, cache, locks, clients, provLog>>

\* The compute lock is taken and the cache read again.
GenAcquire(s) ==
    /\ run[s].pc = "gen_wait"
    /\ ~Locked(GenFn(app), GenKey(run[s]))
    /\ LET hits == Hits(GenFn(app), GenKey(run[s]))
       IN IF hits # {}
          THEN /\ SetBundle(s, AfterGeneration(Bundle(s), app,
                       Returned((CHOOSE e \in hits : TRUE).value), "cache", clock,
                       env.youtube_key))
               /\ UNCHANGED locks
          ELSE /\ SetBundle(s, [Bundle(s) EXCEPT !.run.pc = "gen_compute"])
               /\ locks' = locks \cup
                      {[fn |-> GenFn(app), key |-> GenKey(run[s]), holder |-> s]}
    /\ UNCHANGED <<app, pureVars, env, clock, cache, clients, provLog, clicks>>

\* The body of the generation function runs against the provider; a returned
\* value is stored, an exception is not; the lock is released.
GenCompute(s, sdk) ==
    /\ run[s].pc = "gen_compute"
    /\ (app = "root" /\ run[s].third \in clients) => sdk.kind # "init_error"
    /\ LET r == run[s]
           outcome == IF app = "package"
                      THEN generate_topic_pack(r.topic, r.mode, r.third, sdk)
                      ELSE generate_learning_content(r.topic, r.mode, r.third, sdk)
           nb == Settle(AfterGeneration(Bundle(s), app, outcome, "provider", clock,
                                        env.youtube_key))
       IN /\ cache' = IF outcome.ok
                      THEN Stored(GenFn(app), GenKey(r), outcome.value)
                      ELSE cache
          /\ locks' = {l \in locks : l.holder # s}
          /\ clients' = IF app = "root" /\ sdk.kind # "init_error"
                        THEN clients \cup {r.third}
                        ELSE clients
          /\ provLog' = Append(provLog,
                 [key |-> GenKey(r), at |-> clock, ok |-> outcome.ok])
          /\ run' = [t \in Sessions |->
                 IF t = s THEN nb.run
                 ELSE IF run[t].pc = "gen_wait" /\ GenKey(run[t]) = GenKey(r)
                      THEN [run[t] EXCEPT !.peer = [outcome |-> outcome, at |-> clock]]
                 ELSE run[t]]
          /\ session_state' = [session_state EXCEPT ![s] = nb.st]
          /\ ui' = [ui EXCEPT ![s] = nb.page]
          /\ owner' = [owner EXCEPT ![s] = nb.own]
    /\ UNCHANGED <<app, pureVars, env, clock, clicks>>

\* The call of the cached lookup function.
VideoCall(s) ==
    /\ run[s].pc = "video"
    /\ LET b == [Bundle(s) EXCEPT !.run.vidCalls = @ + 1]
           hits == Hits(VidFn, VidKey(run[s]))
       IN IF hits # {}
          THEN SetBundle(s, AfterVideo(b, app, Returned((CHOOSE e \in hits : TRUE).value)))
          ELSE SetBundle(s, [b EXCEPT !.run.pc = "video_wait"])
    /\ UNCHANGED <<app, pureVars, env, clock, cache, locks, clients, provLog, clicks>>

VideoAcquire(s) ==
    /\ run[s].pc = "video_wait"
    /\ ~Locked(VidFn, VidKey(run[s]))
    /\ LET hits == Hits(VidFn, VidKey(run[s]))
       IN IF hits # {}
          THEN /\ SetBundle(s, AfterVideo(Bundle(s), app,
                       Returned((CHOOSE e \in hits : TRUE).value)))
               /\ UNCHANGED locks
          ELSE /\ SetBundle(s, [Bundle(s) EXCEPT !.run.pc = "video_compute"])
               /\ locks' = locks \cup {[fn |-> VidFn, key |-> VidKey(run[s]), holder |-> s]}
    /\ UNCHANGED <<app, pureVars, env, clock, cache, clients, provLog, clicks>>

\* The body of the lookup function runs against the video API.
VideoCompute(s, http) ==
    /\ run[s].pc = "video_compute"
    /\ LET r == run[s]
           outcome == search_youtube_video(app, r.topic, env.youtube_key, http)
       IN /\ cache' = IF outcome.ok THEN Stored(VidFn, VidKey(r), outcome.value) ELSE cache
          /\ locks' = {l \in locks : l.holder # s}
          /\ SetBundle(s, AfterVideo(Bundle(s), app, outcome))
    /\ UNCHANGED <<app, pureVars, env, clock, clients, provLog, clicks>>

\* Mutant: a Clear history that clears the result cache and the stored pack too.
ClearHistory_all(s) ==
    /\ run[s].pc = "idle"
    /\ ~Stopped
    /\ session_state[s].topic_history # <<>>
    /\ SetBundle(s, Rendered([Bundle(s) EXCEPT !.page = BlankPage,
                                                !.run = IdleRun,
                                                !.st = FreshSessionState]))
    /\ cache' = {}
    /\ UNCHANGED <<app, pureVars, env, clock, locks, clients, provLog, clicks>>

\* The sidebar's Clear history button: the history is emptied, the script
\* runs on and draws the page.
ClearHistory(s) ==
    /\ run[s].pc = "idle"
    /\ ~Stopped
    /\ session_state[s].topic_history # <<>>
    /\ SetBundle(s, Rendered([Bundle(s) EXCEPT !.page = BlankPage,
                                                !.run = IdleRun,
                                                !.st.topic_history = <<>>]))
    /\ UNCHANGED <<app, pureVars, env, clock, cache, locks, clients, provLog, clicks>>

\* The user acts on the page while the script is between the generation
\* call and the lookup: Streamlit stops the running script at its next
\* command (the spinner) and runs the script anew.
Interrupt(s) ==
    /\ run[s].pc = "video"
    /\ SetBundle(s, Rendered([Bundle(s) EXCEPT !.page = BlankPage,
                                                !.run = IdleRun]))
    /\ UNCHANGED <<app, pureVars, env, clock, cache, locks, clients, provLog, clicks>>

Tick ==
    /\ clock + TickSeconds <= MaxClock
    /\ clock' = clock + TickSeconds
    /\ UNCHANGED <<app, pureVars, env, cache, locks, clients, session_state, run, ui,
                   provLog, owner, clicks>>

Next ==
    \/ \E s \in Sessions : Rerun(s)
    \/ \E s \in Sessions, q \in Controls : Click(s, q)
    \/ \E s \in Sessions : GenAcquire(s)
    \/ \E s \in Sessions, sdk \in SdkOutcomes : GenCompute(s, sdk)
    \/ \E s \in Sessions : VideoCall(s)
    \/ \E s \in Sessions : VideoAcquire(s)
    \/ \E s \in Sessions, http \in HttpOutcomes : VideoCompute(s, http)
    \/ \E s \in Sessions : ClearHistory(s)
    \/ \E s \in Sessions : Interrupt(s)
    \/ Tick

Spec == Init /\ [][Next]_vars

-----------------------------------------------------------------------------
(* Claims about the sessions, checked under Spec.                          *)

Called(x) == "ok" \in DOMAIN x

\* The action of session s has run to its end.
Ended(s) == run[s].pc = "idle" /\ Called(run[s].result)

C2_ConcurrentRequestsShareOutcome ==
    /\ \A s, t \in Sessions :
           (s # t /\ run[s].pc = "gen_compute" /\ run[t].pc = "gen_compute")
               => GenKey(run[s]) # GenKey(run[t])
    /\ \A s \in Sessions :
           (Called(run[s].result) /\ "outcome" \in DOMAIN run[s].peer
                /\ run[s].genAt - run[s].peer.at < TTL)
               => /\ run[s].genSource = "cache"
                  /\ run[s].result = run[s].peer.outcome

\* C3 (as claimed): after a generate action whose generation call failed, the
\* page shows an error and no learning pack.
C3_FailureShowsNoPack ==
    \A s \in Sessions :
        (Ended(s) /\ ~run[s].result.ok)
            => ui[s].error # <<>> /\ ui[s].pack = JNull

\* C4: after a generate action whose generation call succeeded, last_result
\* and the pack on the page are the pack this call returned, whatever the
\* video lookup did; if the lookup failed, the stored and the shown video are
\* "no video" and no error is on the page.
C4_VideoFailureKeepsPack ==
    \A s \in Sessions :
        (Ended(s) /\ run[s].result.ok)
            => /\ session_state[s].last_result = run[s].result.value
               /\ ui[s].pack = run[s].result.value
               /\ (Called(run[s].video) /\ ~run[s].video.ok)
                      => /\ session_state[s].last_video = JNull
                         /\ ui[s].video = JNull
                         /\ ui[s].error = <<>>
                         /\ ui[s].warning # <<>>

\* C4 witness: an action has ended whose generation succeeded and whose video
\* lookup raised.
C4_Witness ==
    \E s \in Sessions :
        /\ Ended(s) /\ run[s].result.ok
        /\ Called(run[s].video) /\ ~run[s].video.ok

\* C5: in one generate action the generation function is called at most once
\* and the lookup function at most once, and the lookup is called only when
\* the generation call has returned.
C5_OneCallEachInOrder ==
    \A s \in Sessions :
        /\ run[s].genCalls <= 1
        /\ run[s].vidCalls <= 1
        /\ run[s].pc \in {"gen_wait", "gen_compute"}
               => ~Called(run[s].result) /\ run[s].vidCalls = 0
        /\ (run[s].vidCalls > 0 \/ run[s].pc \in {"video", "video_wait", "video_compute"}
                \/ Called(run[s].video))
               => Called(run[s].result) /\ run[s].result.ok /\ run[s].genCalls = 1
        /\ (Called(run[s].result) /\ ~run[s].result.ok) => run[s].vidCalls = 0

\* C5 witness: one action has ended after a failed generation call and no
\* lookup, another after one generation call and one lookup that found a video.
C5_Witness ==
    /\ \E s \in Sessions :
           Ended(s) /\ ~run[s].result.ok /\ run[s].genCalls = 1 /\ run[s].vidCalls = 0
    /\ \E s \in Sessions :
           /\ Ended(s) /\ run[s].genCalls = 1 /\ run[s].vidCalls = 1
           /\ Called(run[s].video) /\ run[s].video.ok /\ run[s].video.value # JNull

History(s) == session_state[s].topic_history

Topics(h) == {h[i] : i \in 1..Len(h)}

HistoryDistinct ==
    \A s \in Sessions : \A i, j \in 1..Len(History(s)) :
        i # j => History(s)[i] # History(s)[j]

\* What one step may do to a history: leave it, append the topic of the
\* running generate action if it is not in it, or empty it by Clear history.
HistoryStep ==
    \A s \in Sessions :
        \/ History(s)' = History(s)
        \/ /\ History(s)' = Append(History(s), run'[s].topic)
           /\ run'[s].topic \notin Topics(History(s))
           /\ run[s].pc # "idle" \/ run'[s].genCalls = 1
        \/ /\ History(s)' = <<>>
           /\ ClearHistory(s)

\* C14: the topic history of a session holds pairwise distinct topics in the
\* order of their first insertion: a step appends the topic of the generate
\* action when it is not yet present, keeps the entries and their order, and
\* only Clear history empties it.
C14_HistoryDistinctInOrder == []HistoryDistinct /\ [][HistoryStep]_vars

\* C14 witness: with no video key configured, a session generated a topic and
\* then the same topic again (served from the cache), and its history holds
\* the topic once; the other session has generated nothing.
C14_Witness ==
    /\ env.youtube_key = ""
    /\ clicks = 2
    /\ Len(provLog) = 1
    /\ \E s, t \in Sessions :
           /\ s # t
           /\ session_state[t] = FreshSessionState /\ run[t].pc = "idle"
           /\ Ended(s) /\ run[s].result.ok /\ run[s].genSource = "cache"
           /\ History(s) = <<run[s].topic>>

\* What a Clear history step of session s leaves as it was: the cache and the
\* clock, hence the entries every request hits, the stored pack and video of
\* the session, and all of every other session.
ClearFrame(s) ==
    /\ History(s)' = <<>>
    /\ cache' = cache /\ clock' = clock /\ locks' = locks /\ provLog' = provLog
    /\ session_state'[s].last_result = session_state[s].last_result
    /\ session_state'[s].last_video = session_state[s].last_video
    /\ \A t \in Sessions \ {s} :
           session_state'[t] = session_state[t] /\ run'[t] = run[t] /\ ui'[t] = ui[t]
    /\ \A q \in Controls :
           LET key == <<strip(q.raw), q.mode, q.third>>
           IN Hits(GenFn(app), key)' = Hits(GenFn(app), key)

\* C15: Clear history empties the topic history of the session and leaves the
\* result cache, last_result and last_video as they were, so that a request
\* cached before the clear still hits the cache after it.
C15_ClearHistoryFrame == [][\A s \in Sessions : ClearHistory(s) => ClearFrame(s)]_vars

\* C15 witness: a session whose history is empty still holds a pack and the
\* cache holds an unexpired entry for the generation function: the state a
\* Clear history leaves after a generation.
C15_Witness ==
    \E s \in Sessions :
        /\ History(s) = <<>>
        /\ session_state[s].last_result # JNull
        /\ run[s] = IdleRun
        /\ \E e \in cache : e.fn = GenFn(app) /\ clock - e.stored < TTL

\* A topic field that holds nothing but white space.
Blank(raw) == \A i \in 1..Len(raw) : raw[i] \in Whitespace

EmptyTopicMessage == <<"Please enter a topic before generating content.">>

\* C16: a generate action whose topic is empty after trimming ends in the
\* step of the click with the error shown: no generation call, no video
\* lookup, no provider call, and the cache, the topic history, last_result
\* and last_video (the whole session state) stay as they were.
C16_EmptyTopicRejected ==
    [][\A s \in Sessions : \A q \in Controls :
          (Click(s, q) /\ Blank(q.raw)) =>
              /\ run'[s].pc = "idle"
              /\ run'[s].genCalls = 0 /\ run'[s].vidCalls = 0
              /\ ~Called(run'[s].result) /\ ~Called(run'[s].video)
              /\ ui'[s].error = EmptyTopicMessage
              /\ session_state' = session_state
              /\ cache' = cache /\ locks' = locks /\ provLog' = provLog]_vars

\* C16 witness: a session that holds a pack and a history from an earlier
\* action shows the empty-topic error, with no call made by the rejected action.
C16_Witness ==
    \E s \in Sessions :
        /\ ui[s].error = EmptyTopicMessage
        /\ run[s].pc = "idle" /\ run[s].genCalls = 0 /\ run[s].vidCalls = 0
        /\ session_state[s].last_result # JNull
        /\ History(s) # <<>>
        /\ clicks = 2

\* The generation call of the running action of session s returned a value.
Generated(r) == Called(r.result) /\ r.result.ok

\* A step adds to a history only the topic of an action whose generation call
\* has returned a value.
AddsOnlyGenerated ==
    \A s \in Sessions :
        \/ History(s)' = History(s)
        \/ History(s)' = <<>>
        \/ /\ History(s)' = Append(History(s), run'[s].topic)
           /\ Generated(run'[s])

\* An action whose generation call succeeded and whose video lookup failed
\* has ended with its topic in the history.
VideoFailureStillAdds ==
    \A s \in Sessions :
        (Ended(s) /\ Generated(run[s]) /\ Called(run[s].video) /\ ~run[s].video.ok)
            => run[s].topic \in Topics(History(s))

\* An action whose generation call failed has ended with the history it found.
FailureAddsNothing ==
    \A s \in Sessions :
        (Called(run'[s].result) /\ ~run'[s].result.ok /\ run'[s] # run[s])
            => History(s)' = History(s)

\* C17: every topic in a history was put there by an action whose generation
\* call returned successfully (since the last clear); a failed generation
\* adds nothing; a failed video lookup does not keep the topic out.
C17_HistoryOfSuccesses ==
    []VideoFailureStillAdds /\ [][AddsOnlyGenerated /\ FailureAddsNothing]_vars

\* C17 witness: one session ended an action with a pack, a failed lookup and
\* its topic in the history, the other ended one with a failed generation and
\* an empty history.
C17_Witness ==
    \E s, t \in Sessions :
        /\ Ended(s) /\ Generated(run[s])
        /\ Called(run[s].video) /\ ~run[s].video.ok
        /\ History(s) = <<run[s].topic>>
        /\ Ended(t) /\ ~run[t].result.ok
        /\ History(t) = <<>>

\* The stored video of session s is none, or was looked up for the topic the
\* stored pack was generated for.
VideoOfPack(s) ==
    session_state[s].last_video # JNull => owner[s].video = owner[s].result

\* C18: in every state of a session between two script runs, interrupted
\* actions and failed generations included, the stored video is none or the
\* video looked up for the topic of the stored pack, and the page never shows
\* a video next to the pack of another topic.
C18_VideoMatchesPack ==
    \A s \in Sessions :
        run[s].pc = "idle" =>
            /\ VideoOfPack(s)
            /\ (ui[s].pack # JNull /\ ui[s].video # JNull)
                   => owner[s].video = owner[s].result

-----------------------------------------------------------------------------
(* SpecNorm: the record construction applied to parsed payloads.           *)

SeqsUpTo(S, n) == UNION {[1..k -> S] : k \in 0..n}

StrSamples == {<<>>, <<" ">>, <<"a">>, <<" ", "a", " ">>}

Scalars == {JNull, JBool(TRUE), JNum(0), JNum(12)} \cup {JStr(s) : s \in StrSamples}

Elems ==
    {JNull, JNum(12), JStr(<<>>), JStr(<<" ">>), JStr(<<" ", "a", " ">>),
     JStr(<<"b">>), JList(<<>>)}

Lists == {JList(l) : l \in SeqsUpTo(Elems, MaxListLen)}

\* Values found under a level of a roadmap in the samples.
LevelSamples == {JList(<<JStr(<<"b">>), JStr(<<" ">>)>>), JStr(<<" ", "a", " ">>)}

RECURSIVE DictsOver(_)
\* Every dict whose keys are a subsequence of ks, each with a level sample.
DictsOver(ks) ==
    IF ks = <<>> THEN {<<>>}
    ELSE LET rest == DictsOver(Tail(ks))
         IN rest \cup {<<[k |-> Head(ks), v |-> x]>> \o d : x \in LevelSamples, d \in rest}

RoadmapDicts ==
    {JDict(d) : d \in DictsOver(<<"Beginner", "Intermediate", "Advanced", "Expert">>)}

Sources == Scalars \cup Lists \cup RoadmapDicts

SchemaKeys ==
    {"simple_explanation", "key_concepts", "real_world_applications",
     "diagram_mermaid", "mermaid_diagram", "prerequisites", "what_to_learn_next",
     "mini_roadmap", "mini_learning_roadmap", "suggested_projects",
     "interview_questions", "next_logical_topic", "recommended_skills"}

PayloadKeys == SchemaKeys \cup {"extra_key"}

\* A response that follows the schema of both variants.
WellFormed ==
    JDict(<<[k |-> "simple_explanation", v |-> JStr(<<"a">>)],
            [k |-> "key_concepts", v |-> JList(<<JStr(<<"a">>), JStr(<<"b">>)>>)],
            [k |-> "mini_roadmap",
             v |-> JDict(<<[k |-> "Beginner", v |-> JList(<<JStr(<<"b">>)>>)]>>)],
            [k |-> "mini_learning_roadmap",
             v |-> JDict(<<[k |-> "Beginner", v |-> JList(<<JStr(<<"b">>)>>)]>>)],
            [k |-> "prerequisites", v |-> JList(<<JStr(<<"a">>)>>)]>>)

\* d with d[k] = x, as a Python dict assignment leaves it.
Put(d, k, x) ==
    IF HasKey(d, k)
    THEN JDict([i \in 1..Len(d.v) |-> IF d.v[i].k = k THEN [k |-> k, v |-> x] ELSE d.v[i]])
    ELSE JDict(Append(d.v, [k |-> k, v |-> x]))

PayloadSamples ==
    {JDict(<<>>), WellFormed}
    \cup {Put(b, k, x) : b \in {JDict(<<>>), WellFormed}, k \in PayloadKeys, x \in Sources}
    \cup Scalars \cup Lists

InitNorm ==
    /\ app \in Apps
    /\ payload \in PayloadSamples
    /\ built = NotCalled
    /\ normPc = "parsed"
    /\ ParseOff
    /\ ClientOff
    /\ AppOff

\* The statements of generate_topic_pack / generate_learning_content that
\* follow the parse.
Normalize ==
    /\ normPc = "parsed"
    /\ built' = BuildRecord(app, payload)
    /\ normPc' = "done"
    /\ UNCHANGED <<app, payload, text, parsed, parsePc, request, answer, clientPc>>
    /\ UNCHANGED appVars

NextNorm == Normalize

SpecNorm == InitNorm /\ [][NextNorm]_vars

-----------------------------------------------------------------------------
(* SpecParse: _safe_json_parse applied to response texts.                  *)

BodyChars == {"{", "}", "[", "]", ":", "1", "x", "\"a\""}

\* Responses that follow the schema, and one with a trailing comma.
FixedBodies ==
    {<<"{", "\"key_concepts\"", ":", "\"a\"", "}">>,
     <<"{", "\"key_concepts\"", ":", "[", "\"a\"", ",", " ", "1", "]", ",",
       "\"simple_explanation\"", ":", "\"a\"", "}">>,
     <<"{", "\"a\"", ":", "1", ",", "}">>}

Bodies == SeqsUpTo(BodyChars, MaxBodyLen) \cup FixedBodies

\* What may come before and after the body: nothing, fences, prose.
Prefixes == {<<>>, <<Fence, "json", "\n">>, <<Fence, "\n">>, <<"x", " ">>, <<" ", Fence>>}
Suffixes == {<<>>, <<"\n", Fence>>, <<" ", "x">>, <<Fence, " ">>}

TextSamples == {pre \o body \o post : pre \in Prefixes, body \in Bodies, post \in Suffixes}

InitParse ==
    /\ app \in Apps
    /\ text \in TextSamples
    /\ parsed = NotCalled
    /\ parsePc = "text"
    /\ NormOff
    /\ ClientOff
    /\ AppOff

Parse ==
    /\ parsePc = "text"
    /\ parsed' = safe_json_parse(app, text)
    /\ parsePc' = "done"
    /\ UNCHANGED <<app, text, payload, built, normPc, request, answer, clientPc>>
    /\ UNCHANGED appVars

NextParse == Parse

SpecParse == InitParse /\ [][NextParse]_vars

-----------------------------------------------------------------------------
(* SpecClients: one call of the generation client or of the video lookup,  *)
(* over what the remote end may do.                                        *)

\* Pieces of provider error messages, and the messages made of two of them.
Phrases ==
    {<<>>, <<"Quota">>, <<"429">>, <<"gene", "rate">>, <<"API", " ", "key">>,
     <<"permission">>, <<"unauthorized">>, <<"network">>, <<"connection">>,
     <<"timeout">>, <<"internal">>}

ErrorMessages == {p \o q : p \in Phrases, q \in Phrases}

SdkSamples ==
    {InitError(<<"unavailable">>), InitError(<<"Quota">>)}
    \cup {RequestError(m) : m \in ErrorMessages}
    \cup {ResponseText(GoodText), ResponseText(<<"[", "]">>), ResponseText(<<"x">>)}

\* The reason code and the message of an error body; <<>> stands for a body
\* without the field.
ReasonSamples == {<<>>, <<"quota", "Exceeded">>, <<"key", "Invalid">>, <<"forbidden">>}
MessageSamples ==
    {<<>>, <<"Quota", " ", "exceeded">>, <<"API", " ", "key", " ", "not", " ", "valid">>,
     <<"Invalid", " ", "key">>, <<"Bad", " ", "Request">>}

ErrorBody(reason, message) ==
    JDict(<<KV("error", JDict(
        (IF message = <<>> THEN <<>> ELSE <<KV("message", JStr(message))>>)
        \o (IF reason = <<>> THEN <<>>
            ELSE <<KV("errors", JList(<<JDict(<<KV("reason", JStr(reason))>>)>>))>>)))>>)

\* First results of a search: a video, a channel, a result without id, a
\* video with an empty id, a video without snippet.
ItemSamples ==
    {VideoItem("v1"),
     JDict(<<KV("id", JDict(<<KV("channelId", JStr(<<"c1">>))>>)),
             KV("snippet", JDict(<<KV("title", JStr(<<"t">>))>>))>>),
     JDict(<<KV("snippet", JDict(<<KV("title", JStr(<<"t">>))>>))>>),
     JDict(<<KV("id", JDict(<<KV("videoId", JStr(<<>>))>>))>>),
     JDict(<<KV("id", JDict(<<KV("videoId", JStr(<<"v2">>))>>))>>)}

SearchBodies ==
    {JDict(<<>>), JDict(<<KV("items", JList(<<>>))>>)}
    \cup {JDict(<<KV("items", JList(<<i>>))>>) : i \in ItemSamples}
    \cup {JDict(<<KV("items", JList(<<i, VideoItem("v1")>>))>>) : i \in ItemSamples}

HttpSamples ==
    {HttpRaises(e) : e \in {"Timeout", "ConnectionError", "RequestException", "ValueError"}}
    \cup {HttpResponse(HttpOk, b) : b \in SearchBodies}
    \cup {HttpResponse(code, ErrorBody(r, m)) :
              code \in {400, 403}, r \in ReasonSamples, m \in MessageSamples}

GenerateRequests ==
    {[fn |-> "generate", third |-> k, remote |-> sdk] :
         k \in {"", "gk", "Gemini", "OpenAI"}, sdk \in SdkSamples}

LookupRequests ==
    {[fn |-> "lookup", key |-> k, remote |-> http] : k \in {"", "yk"}, http \in HttpSamples}

\* main stops before a generation when the package has no Gemini key; the
\* root app passes a provider name.
CanRequest(a, r) ==
    r.fn = "generate" => IF a = "package" THEN r.third = "gk" ELSE r.third \in Providers

InitClients ==
    /\ app \in Apps
    /\ request \in {r \in GenerateRequests \cup LookupRequests : CanRequest(app, r)}
    /\ answer = NotCalled
    /\ clientPc = "ready"
    /\ NormOff
    /\ ParseOff
    /\ AppOff

\* One call of generate_topic_pack / generate_learning_content.
Generate ==
    /\ clientPc = "ready"
    /\ request.fn = "generate"
    /\ answer' = IF app = "package"
                 THEN generate_topic_pack(<<"A">>, "Beginner", request.third, request.remote)
                 ELSE generate_learning_content(<<"A">>, "Beginner", request.third,
                                                request.remote)
    /\ clientPc' = "done"
    /\ UNCHANGED <<app, payload, built, normPc, text, parsed, parsePc, request>>
    /\ UNCHANGED appVars

\* One video lookup.
Lookup ==
    /\ clientPc = "ready"
    /\ request.fn = "lookup"
    /\ answer' = lookup(app, <<"A">>, request.key, request.remote)
    /\ clientPc' = "done"
    /\ UNCHANGED <<app, payload, built, normPc, text, parsed, parsePc, request>>
    /\ UNCHANGED appVars

NextClients == Generate \/ Lookup

SpecClients == InitClients /\ [][NextClients]_vars

-----------------------------------------------------------------------------
(* Claims about the clients, checked under SpecClients.                    *)

LookupDone == clientPc = "done" /\ request.fn = "lookup"
GenerateDone == clientPc = "done" /\ request.fn = "generate"

\* The response of a lookup that reached the video API with status 200.
Found == request.key # "" /\ request.remote.kind = "response"
             /\ request.remote.status = HttpOk

FoundItems == DictGet(request.remote.data, "items", JList(<<>>)).v

\* The result carries no video identifier.
LacksVideoId(item) ==
    \/ ~HasKey(item, "id")
    \/ ~HasKey(DictGet(item, "id", JNull), "videoId")
    \/ DictGet(DictGet(item, "id", JNull), "videoId", JNull) = JStr(<<>>)

\* C11: the video lookup returns None and raises nothing when no key is
\* configured, and then requests.get is not called; when the API answers 200
\* with no results; and when it answers 200 with a first result that carries
\* no video identifier.
C11_NoneFound ==
    LookupDone =>
        /\ request.key = "" => answer.gets = 0 /\ answer.outcome = Returned(JNull)
        /\ (Found /\ FoundItems = <<>>) => answer.outcome = Returned(JNull)
        /\ (Found /\ FoundItems # <<>> /\ LacksVideoId(FoundItems[1]))
               => answer.outcome = Returned(JNull)

\* C11 witness: a lookup with a key was answered 200 with a first result that
\* is a channel, followed by a video, and returned None after one request.
C11_Witness ==
    /\ LookupDone /\ Found
    /\ Len(FoundItems) = 2
    /\ HasKey(FoundItems[1], "id")
    /\ LacksVideoId(FoundItems[1])
    /\ answer.gets = 1
    /\ answer.outcome = Returned(JNull)

\* The sub-reason the claim gives a provider error message.
SubReason(msg) ==
    LET message == lower(msg)
    IN IF Contains(message, <<"quota">>) \/ Contains(message, <<"rate">>)
          \/ Contains(message, <<"429">>)
       THEN <<"Gemini API quota exceeded. Please try again later.">>
       ELSE IF Contains(message, <<"api", " ", "key">>)
               \/ Contains(message, <<"permission">>)
               \/ Contains(message, <<"unauthorized">>)
       THEN <<"Invalid Gemini API key or permission denied.">>
       ELSE IF Contains(message, <<"network">>) \/ Contains(message, <<"connection">>)
               \/ Contains(message, <<"timeout">>)
       THEN <<"Network error while contacting Gemini API.">>
       ELSE <<"Gemini API request failed: ">> \o msg

\* C12 (as claimed): when the provider call of the generation client raises,
\* the generation function raises GeminiServiceError with the sub-reason of
\* the provider's message: quota for "quota", "rate" or "429", auth for an
\* invalid key or a denied permission, network for a transport failure, and
\* otherwise the unknown-provider error that carries the original message; no
\* other exception leaves the function.
C12_FailureClassification ==
    (GenerateDone /\ request.remote.kind = "error")
        => answer = Raised("GeminiServiceError", SubReason(request.remote.msg))

\* A lookup that reached the video API and was answered with another status
\* than 200.
Refused == LookupDone /\ request.key # "" /\ request.remote.kind = "response"
               /\ request.remote.status # HttpOk

RefusedError == DictGet(request.remote.data, "error", JDict(<<>>))

\* The reason code and the message of the error body; <<>> when absent.
BodyReason ==
    LET errors == DictGet(RefusedError, "errors", JList(<<>>)).v
    IN IF errors = <<>> THEN <<>> ELSE DictGet(errors[1], "reason", JStr(<<>>)).v
BodyMessage == DictGet(RefusedError, "message", JStr(<<>>)).v

\* The reason code if present, else the message.
Extracted == IF BodyReason # <<>> THEN BodyReason ELSE BodyMessage

InReasonOrMessage(needle) ==
    Contains(lower(BodyReason), needle) \/ Contains(lower(BodyMessage), needle)

\* The class the claim gives the failure.
ClaimedClass ==
    IF InReasonOrMessage(<<"quota">>) THEN "QuotaExceeded"
    ELSE IF InReasonOrMessage(<<"invalid", " ", "key">>)
            \/ InReasonOrMessage(<<"api", " ", "key">>)
    THEN "AuthError"
    ELSE "ProviderError"

\* The class of a raised lookup error, by its message.
RaisedClass(e) ==
    IF e.msg[1] = "YouTube API quota exceeded. Try again later." THEN "QuotaExceeded"
    ELSE IF e.msg[1] = "Invalid YouTube API key." THEN "AuthError"
    ELSE "ProviderError"

C13_Classified ==
    Refused => /\ ~answer.outcome.ok
               /\ answer.outcome.exc = "YouTubeServiceError"
               /\ RaisedClass(answer.outcome) = ClaimedClass

C13_Carries ==
    (Refused /\ ~answer.outcome.ok /\ Extracted # <<>>)
        => Contains(answer.outcome.msg, Extracted)

\* C13 (as claimed): a lookup answered with another status than 200 raises
\* the lookup error classified as quota when the reason code or the message
\* contains "quota", as auth when either contains "invalid key" or "api key",
\* and as a generic provider error otherwise; the raised error carries the
\* extracted reason (the reason code if present, else the message).
C13_StatusClassification == C13_Classified /\ C13_Carries

-----------------------------------------------------------------------------
(* Claims about the parser, checked under SpecParse.                       *)

ParseDone == parsePc = "done"

\* C6 (as claimed): when the strict parse of the de-fenced text fails and the
\* parse of the substring from the first "{" to the last "}" fails too (no
\* such substring, or one that is not valid JSON), _safe_json_parse raises
\* its invalid-JSON error (MalformedResponse) and no other exception.
C6_DoubleFailureIsMalformed ==
    (ParseDone /\ ~parsed.ok) => parsed = InvalidJson(app)

-----------------------------------------------------------------------------
(* Claims about the normalizer, checked under SpecNorm.                    *)

NormDone == normPc = "done"

\* The source value of field f in the payload (None when absent, as
\* payload.get(f) gives it).
SourceOf(f) == DictGet(payload, f, JNull)

CharSeqs == Seq(STRING)

\* C7 (as claimed): once the top-level parse has succeeded, normalization is
\* total: for every parsed JSON value, an object or not, building the record
\* returns a record and raises nothing.
C7_NormalizationTotal == NormDone => built.ok

\* C8: every record returned has each list field as a sequence of strings,
\* empty when the source field is absent or null, and a roadmap with exactly
\* the keys Beginner, Intermediate, Advanced: all empty for a source that is no
\* mapping; for a mapping, the list coercion of the value under each canonical
\* key, empty for a missing key, whatever other keys the source holds.
C8_ListFieldsAndRoadmap ==
    (NormDone /\ built.ok) =>
        LET rec == built.value
            rm == rec[RoadmapField(app)]
            src == SourceOf(RoadmapField(app))
        IN /\ \A f \in ListFields(app) :
                /\ rec[f] \in Seq(CharSeqs)
                /\ (SourceOf(f) = JNull => rec[f] = <<>>)
           /\ DOMAIN rm = Levels
           /\ \A level \in Levels :
                rm[level] = IF IsDict(src) /\ HasKey(src, level)
                            THEN normalize_list(DictGet(src, level, JNull))
                            ELSE <<>>

\* C8 witness: a record was built from a payload whose roadmap source is a
\* mapping that lacks Intermediate and holds a key outside the canonical three,
\* and whose key_concepts field is absent.
C8_Witness ==
    /\ NormDone /\ built.ok
    /\ IsDict(SourceOf(RoadmapField(app)))
    /\ HasKey(SourceOf(RoadmapField(app)), "Expert")
    /\ HasKey(SourceOf(RoadmapField(app)), "Beginner")
    /\ ~HasKey(SourceOf(RoadmapField(app)), "Intermediate")
    /\ ~HasKey(payload, "key_concepts")
    /\ built.value[RoadmapField(app)]["Beginner"] # <<>>

\* C9 (as claimed): the simple_explanation of a returned record is the source
\* value if and only if the source is a string that is non-empty after
\* trimming; in every other case it is "Explanation unavailable.".
C9_StringFieldCoercion ==
    (NormDone /\ built.ok) =>
        LET src == SourceOf("simple_explanation")
        IN built.value.simple_explanation =
               IF HasKey(payload, "simple_explanation") /\ IsStr(src)
                  /\ truthy(strip(src.v))
               THEN src
               ELSE JStr(ExplanationUnavailable)

\* The indices of the elements of l that stringify to a string that is
\* non-empty after trimming.
KeptIndices(l) == {i \in 1..Len(l) : strip(PyStr(l[i])) # <<>>}

\* The j-th smallest member of a set of indices.
NthIndex(I, j) == CHOOSE i \in I : Cardinality({m \in I : m <= i}) = j

\* out holds the trimmed stringification of each kept element of l, in order.
KeepsInOrder(out, l) ==
    /\ Len(out) = Cardinality(KeptIndices(l))
    /\ \A j \in 1..Len(out) : out[j] = strip(PyStr(l[NthIndex(KeptIndices(l), j)]))

\* C10 (as claimed): a sequence source gives, in order, the elements that
\* stringify to a non-empty trimmed string; a non-empty string source gives the
\* single-element sequence holding it (as found or trimmed); every other
\* source gives the empty sequence.
C10_ListCoercionAsClaimed ==
    (NormDone /\ built.ok) =>
        \A f \in ListFields(app) :
            LET src == SourceOf(f)
                out == built.value[f]
            IN IF IsList(src) THEN KeepsInOrder(out, src.v)
               ELSE IF IsStr(src) /\ src.v # <<>>
                    THEN out \in {<<src.v>>, <<strip(src.v)>>}
               ELSE out = <<>>

\* C10 (amended): a sequence source gives, in order, the trimmed
\* stringification of each element whose stringification is non-empty after
\* trimming; a string source that is non-empty after trimming gives the
\* single-element sequence holding the trimmed string; every other source,
\* a whitespace-only string included, gives the empty sequence.
C10_ListCoercion ==
    (NormDone /\ built.ok) =>
        \A f \in ListFields(app) :
            LET src == SourceOf(f)
                out == built.value[f]
            IN IF IsList(src) THEN KeepsInOrder(out, src.v)
               ELSE IF IsStr(src) /\ strip(src.v) # <<>>
                    THEN out = <<strip(src.v)>>
               ELSE out = <<>>

\* C10 witness: a list field was coerced from a sequence whose first element
\* is dropped (whitespace only) and whose second is kept, trimmed.
C10_Witness ==
    /\ NormDone /\ built.ok
    /\ SourceOf("key_concepts") = JList(<<JStr(<<" ">>), JStr(<<" ", "a", " ">>)>>)
    /\ built.value.key_concepts = <<(<<"a">>)>>

=============================================================================
